---- MODULE Spec2Model ----
(***************************************************************************)
(* Model of the MarkitDown Flask service                                   *)
(* (src/services/markitdown-service/app.py): the two conversion handlers   *)
(* convert_file (POST /convert) and convert_url (POST /convert-url), run   *)
(* by concurrent request threads over one shared temporary directory.      *)
(*                                                                         *)
(* Strings are sequences of one-character strings, so that len(), the      *)
(* substring test and os.path.splitext are computed, not assumed.          *)
(***************************************************************************)
EXTENDS Integers, Sequences, FiniteSets, TLC

\* ------------------------------------------------------------------ bounds
\* Number of request threads the transport layer runs at the same time.
NumReqs == 2
\* Number of random name components tempfile can draw for one suffix.
MaxNames == 2
\* Longest markdown text the library returns.
MaxLen == 1

Reqs == 1 .. NumReqs
Names == 1 .. MaxNames

\* ------------------------------------------------------------ python values
EmptyStr == << >>
NoExc == [type |-> "none", msg |-> "none"]
NoResponse == [status |-> 0]
NoPath == [name |-> 0, suffix |-> EmptyStr]
NoFile == [exists |-> FALSE, size |-> 0]
NoRequest == [op |-> "none"]
NoResult == [k |-> "unset"]

\* Markdown texts the library can produce: "", "#", "##", ...
RECURSIVE Hashes(_)
Hashes(n) == IF n = 0 THEN EmptyStr ELSE Append(Hashes(n - 1), "#")
Texts == {Hashes(n) : n \in 0 .. MaxLen}

\* File names a client can report: "" and "a.m".
FileNames == {EmptyStr, <<"a", ".", "m">>}
\* Values of the optional 'filename' form field, when it is supplied: "", ".m"
\* (a dot file: no extension) and "b.m".
FormFilenames == {EmptyStr, <<".", "m">>, <<"b", ".", "m">>}
\* The bytes of every upload: "# H".
Upload == <<"#", " ", "H">>

\* str.rfind on a 1-based sequence: the last index of c at or below i, 0 if none.
RECURSIVE RFind(_, _, _)
RFind(p, c, i) ==
    IF i = 0 THEN 0
    ELSE IF p[i] = c THEN i
    ELSE RFind(p, c, i - 1)

\* os.path.splitext(p): the extension starts at the last dot of the last path
\* component, unless only dots precede it in that component.
splitext(p) ==
    LET sepIndex == RFind(p, "/", Len(p))
        dotIndex == RFind(p, ".", Len(p))
    IN  IF dotIndex > sepIndex
           /\ \E k \in (sepIndex + 1) .. (dotIndex - 1) : p[k] # "."
        THEN <<SubSeq(p, 1, dotIndex - 1), SubSeq(p, dotIndex, Len(p))>>
        ELSE <<p, EmptyStr>>

\* ---------------------------------------------------------------- requests
\* POST /convert: request.files and request.form.
FileRequests ==
    {[op |-> "convert", has_file |-> FALSE, file_filename |-> EmptyStr,
      has_form_filename |-> FALSE, form_filename |-> EmptyStr]}
    \cup
    {[op |-> "convert", has_file |-> TRUE, file_filename |-> f,
      has_form_filename |-> FALSE, form_filename |-> EmptyStr] : f \in FileNames}
    \cup
    {[op |-> "convert", has_file |-> TRUE, file_filename |-> f,
      has_form_filename |-> TRUE, form_filename |-> g] :
        f \in FileNames, g \in FormFilenames}

\* JSON documents a client can send to /convert-url.
UrlString == <<"h", ":", "d">>
JsonValues ==
    { [t |-> "null"],
      [t |-> "object", keys |-> {}],
      [t |-> "object", keys |-> {"other"}],
      [t |-> "object", keys |-> {"url"}],
      [t |-> "array", items |-> {"url"}],
      [t |-> "string", s |-> <<"u", "r", "l">>],
      [t |-> "number", n |-> 5] }

\* POST /convert-url: the body as the transport delivers it.
Bodies ==
    { [kind |-> "not_json"], [kind |-> "malformed"] }
    \cup { [kind |-> "json", value |-> v] : v \in JsonValues }

UrlRequests == {[op |-> "convert_url", body |-> b] : b \in Bodies}

\* ------------------------------------------------------------- exceptions
\* Classes derived from OSError, the ones the cleanup's except clause names.
OSErrors == {"OSError", "FileExistsError", "FileNotFoundError"}
\* Classes derived from Exception: werkzeug's HTTP exceptions, the built-in
\* errors and whatever the library raises.
Exceptions ==
    OSErrors \cup {"BadRequest", "UnsupportedMediaType", "TypeError",
                  "AttributeError", "Exception"}

OSError == [type |-> "OSError", msg |-> "write failed"]
FileExistsError == [type |-> "FileExistsError", msg |-> "no usable temporary file name"]
FileNotFoundError == [type |-> "FileNotFoundError", msg |-> "no such file"]
BadRequest == [type |-> "BadRequest", msg |-> "400 Bad Request"]
UnsupportedMediaType == [type |-> "UnsupportedMediaType", msg |-> "415 Unsupported Media Type"]
TypeError == [type |-> "TypeError", msg |-> "type error"]
AttributeError == [type |-> "AttributeError", msg |-> "no attribute text_content"]
ConversionError == [type |-> "Exception", msg |-> "conversion failed"]

\* ---------------------------------------------------------------- responses
\* jsonify({'error': ...}), 400
ErrorResponse(message) == [status |-> 400, error |-> message]

\* jsonify({'success': False, 'error': str(e)}), 500
FailureResponse(e) == [status |-> 500, success |-> FALSE, error |-> e.msg]

FileSuccessSwapped(name, text, size) ==
    [status |-> 200, success |-> TRUE, filename |-> name, markdown |-> text,
     original_size |-> Len(text), markdown_size |-> size]

\* The success body of convert_file; jsonify alone answers with status 200.
FileSuccess(name, text, size) ==
    [status |-> 200, success |-> TRUE, filename |-> name, markdown |-> text,
     original_size |-> size, markdown_size |-> Len(text)]

\* The success body of convert_url.
UrlSuccess(u, text) ==
    [status |-> 200, success |-> TRUE, url |-> u, markdown |-> text,
     markdown_size |-> Len(text)]

HandleOSErrorOnly(e) ==
    IF e.type \in OSErrors
    THEN [response |-> FailureResponse(e), unhandled |-> NoExc]
    ELSE [response |-> NoResponse, unhandled |-> e]

\* "except Exception as e": what the handler's outer clause makes of e.
Handle(e) ==
    IF e.type \in Exceptions
    THEN [response |-> FailureResponse(e), unhandled |-> NoExc]
    ELSE [response |-> NoResponse, unhandled |-> e]

\* ------------------------------------------------------------------ library
\* markitdown.convert returns a result object, returns None, or raises.
LibResults == {[k |-> "none"]} \cup {[k |-> "result", text_content |-> t] : t \in Texts}

ExtractTextUnguarded(result) ==
    IF result.k = "result"
    THEN [exc |-> NoExc, text |-> result.text_content]
    ELSE [exc |-> AttributeError, text |-> EmptyStr]

\* "result.text_content if result else ''": the text, or the exception the
\* expression raises.
ExtractText(result) ==
    IF result.k = "result"
    THEN [exc |-> NoExc, text |-> result.text_content]
    ELSE [exc |-> NoExc, text |-> EmptyStr]

\* ------------------------------------------------------- request validation
FileMissingIgnored(req) == FALSE

\* "'file' not in request.files"
FileMissing(req) == ~req.has_file

\* "request.form.get('filename', file.filename)"
EffectiveFilename(req) ==
    IF req.has_form_filename THEN req.form_filename ELSE req.file_filename

NoFileSelectedByEffectiveName(req) == EffectiveFilename(req) = EmptyStr

\* "file.filename == ''"
NoFileSelected(req) == req.file_filename = EmptyStr

\* request.get_json(): the parsed document, None, or an HTTP exception.  A body
\* not declared as JSON yields None in older Flask and raises 415 in newer.
get_json(body) ==
    CASE body.kind = "malformed" -> {[exc |-> BadRequest, data |-> [t |-> "null"]]}
      [] body.kind = "not_json" ->
            {[exc |-> NoExc, data |-> [t |-> "null"]],
             [exc |-> UnsupportedMediaType, data |-> [t |-> "null"]]}
      [] OTHER -> {[exc |-> NoExc, data |-> body.value]}

\* "not data": None, an empty container or string, and zero are false.
Falsy(v) ==
    \/ v.t = "null"
    \/ v.t = "object" /\ v.keys = {}
    \/ v.t = "array" /\ v.items = {}
    \/ v.t = "string" /\ v.s = EmptyStr
    \/ v.t = "number" /\ v.n = 0

RECURSIVE IsSubstringAt(_, _, _)
IsSubstringAt(sub, s, i) ==
    IF i + Len(sub) - 1 > Len(s) THEN FALSE
    ELSE IF SubSeq(s, i, i + Len(sub) - 1) = sub THEN TRUE
    ELSE IsSubstringAt(sub, s, i + 1)

\* "'url' not in data": membership in a dict, a list or a str; a number is
\* not iterable.
ContainsUrl(v) ==
    CASE v.t = "object" -> [exc |-> NoExc, val |-> "url" \in v.keys]
      [] v.t = "array" -> [exc |-> NoExc, val |-> "url" \in v.items]
      [] v.t = "string" -> [exc |-> NoExc, val |-> IsSubstringAt(<<"u", "r", "l">>, v.s, 1)]
      [] OTHER -> [exc |-> TypeError, val |-> FALSE]

\* "data['url']": only a dict can be indexed by a string.
GetUrl(v) ==
    IF v.t = "object" THEN [exc |-> NoExc, val |-> UrlString]
    ELSE [exc |-> TypeError, val |-> EmptyStr]

\* Lines 105-110 of convert_url as one function of the get_json outcome.
ValidateUrl(j) ==
    IF j.exc # NoExc THEN [exc |-> j.exc, rejected |-> FALSE, url |-> EmptyStr]
    ELSE IF Falsy(j.data) THEN [exc |-> NoExc, rejected |-> TRUE, url |-> EmptyStr]
    ELSE IF ContainsUrl(j.data).exc # NoExc
         THEN [exc |-> ContainsUrl(j.data).exc, rejected |-> FALSE, url |-> EmptyStr]
    ELSE IF ~ContainsUrl(j.data).val THEN [exc |-> NoExc, rejected |-> TRUE, url |-> EmptyStr]
    ELSE [exc |-> GetUrl(j.data).exc, rejected |-> FALSE, url |-> GetUrl(j.data).val]

\* ------------------------------------------------------------------- state
VARIABLES
    pc,                \* position of each request thread in its handler
    request,           \* the request a thread is serving
    filename,          \* local: the file name in effect
    temp_file,         \* local: name of the NamedTemporaryFile object
    temp_file_path,    \* local: the path handed to the library
    result,            \* local: what markitdown.convert returned
    markdown_content,  \* local: the extracted text
    original_size,     \* local: os.path.getsize of the staged file
    url,               \* local of convert_url
    exc,               \* exception in flight in the thread, or NoExc
    response,          \* what the handler returned, or NoResponse
    unhandled,         \* exception that left the handler, or NoExc
    disk,              \* the temporary directory: path -> file
    events             \* what the current invocation did, in order

vars == <<pc, request, filename, temp_file, temp_file_path, result, markdown_content,
          original_size, url, exc, response, unhandled, disk, events>>

Suffixes == {splitext(f)[2] : f \in FileNames \cup FormFilenames}
Paths == [name : Names, suffix : Suffixes]

Init ==
    /\ pc = [r \in Reqs |-> "idle"]
    /\ request = [r \in Reqs |-> NoRequest]
    /\ filename = [r \in Reqs |-> EmptyStr]
    /\ temp_file = [r \in Reqs |-> NoPath]
    /\ temp_file_path = [r \in Reqs |-> NoPath]
    /\ result = [r \in Reqs |-> NoResult]
    /\ markdown_content = [r \in Reqs |-> EmptyStr]
    /\ original_size = [r \in Reqs |-> 0]
    /\ url = [r \in Reqs |-> EmptyStr]
    /\ exc = [r \in Reqs |-> NoExc]
    /\ response = [r \in Reqs |-> NoResponse]
    /\ unhandled = [r \in Reqs |-> NoExc]
    /\ disk = [p \in Paths |-> NoFile]
    /\ events = [r \in Reqs |-> << >>]

\* The handler of thread r returns, having done the steps in did: by a return
\* statement, or through its outer except clause when e is an exception.
Return(r, e, ok, did) ==
    /\ exc' = [exc EXCEPT ![r] = e]
    /\ response' = [response EXCEPT ![r] = IF e = NoExc THEN ok ELSE Handle(e).response]
    /\ unhandled' = [unhandled EXCEPT ![r] = IF e = NoExc THEN NoExc ELSE Handle(e).unhandled]
    /\ events' = [events EXCEPT ![r] = @ \o did \o <<"respond">>]
    /\ pc' = [pc EXCEPT ![r] = "done"]

\* ------------------------------------------------------ convert_file steps
\* Lines 42-53: the request arrives and is validated.
ConvertFileBegin(r, uploads) ==
    /\ pc[r] = "idle"
    /\ \E req \in uploads :
        /\ request' = [request EXCEPT ![r] = req]
        /\ IF FileMissing(req)
           THEN /\ Return(r, NoExc, ErrorResponse("No file provided"), << >>)
                /\ UNCHANGED filename
           ELSE IF NoFileSelected(req)
           THEN /\ Return(r, NoExc, ErrorResponse("No file selected"), << >>)
                /\ UNCHANGED filename
           ELSE /\ filename' = [filename EXCEPT ![r] = EffectiveFilename(req)]
                /\ pc' = [pc EXCEPT ![r] = "create"]
                /\ UNCHANGED <<response, unhandled, events, exc>>
    /\ UNCHANGED <<temp_file, temp_file_path, result, markdown_content,
                   original_size, url, disk>>

FreeNamesWithoutExcl(suffix) == Names

\* The names tempfile may give a new file: those no file of the directory has
\* (it opens each candidate with O_EXCL).
FreeNames(suffix) ==
    {n \in Names : ~disk[[name |-> n, suffix |-> suffix]].exists}

\* Line 56: NamedTemporaryFile(delete=False, suffix=...) creates an empty file
\* under an unused name, or raises when it finds none.
CreateTemp(r) ==
    /\ pc[r] = "create"
    /\ LET suffix == splitext(filename[r])[2]
       IN  IF FreeNames(suffix) = {}
           THEN /\ Return(r, FileExistsError, NoResponse, << >>)
                /\ UNCHANGED <<temp_file, disk>>
           ELSE \E n \in FreeNames(suffix) :
                  LET path == [name |-> n, suffix |-> suffix]
                  IN  /\ temp_file' = [temp_file EXCEPT ![r] = path]
                      /\ disk' = [disk EXCEPT ![path] = [exists |-> TRUE, size |-> 0]]
                      /\ events' = [events EXCEPT ![r] = Append(@, "create")]
                      /\ pc' = [pc EXCEPT ![r] = "save"]
                      /\ UNCHANGED <<response, unhandled, exc>>
    /\ UNCHANGED <<request, filename, temp_file_path, result, markdown_content,
                   original_size, url>>

\* Lines 57-58: file.save(temp_file.name) writes the upload; leaving the with
\* block closes the file and, with delete=False, keeps it.
Save(r) ==
    /\ pc[r] = "save"
    /\ \/ /\ disk' = [disk EXCEPT ![temp_file[r]] = [exists |-> TRUE, size |-> Len(Upload)]]
          /\ temp_file_path' = [temp_file_path EXCEPT ![r] = temp_file[r]]
          /\ events' = [events EXCEPT ![r] = Append(@, "write")]
          /\ pc' = [pc EXCEPT ![r] = "convert"]
          /\ UNCHANGED <<response, unhandled, exc>>
       \/ /\ Return(r, OSError, NoResponse, << >>)
          /\ UNCHANGED <<disk, temp_file_path>>
    /\ UNCHANGED <<request, filename, temp_file, result, markdown_content,
                   original_size, url>>

\* Lines 60-68: markitdown.convert(temp_file_path) and the text extraction,
\* inside the inner try.  The library raises when the file is not there.
ConvertCall(r) ==
    /\ pc[r] = "convert"
    /\ events' = [events EXCEPT ![r] = Append(@, "library")]
    /\ IF ~disk[temp_file_path[r]].exists
       THEN /\ exc' = [exc EXCEPT ![r] = FileNotFoundError]
            /\ pc' = [pc EXCEPT ![r] = "unlink"]
            /\ UNCHANGED <<result, markdown_content>>
       ELSE \/ /\ exc' = [exc EXCEPT ![r] = ConversionError]
               /\ pc' = [pc EXCEPT ![r] = "unlink"]
               /\ UNCHANGED <<result, markdown_content>>
            \/ \E res \in LibResults :
                 /\ result' = [result EXCEPT ![r] = res]
                 /\ markdown_content' = [markdown_content EXCEPT ![r] = ExtractText(res).text]
                 /\ exc' = [exc EXCEPT ![r] = ExtractText(res).exc]
                 /\ pc' = [pc EXCEPT ![r] =
                              IF ExtractText(res).exc = NoExc THEN "getsize" ELSE "unlink"]
    /\ UNCHANGED <<request, filename, temp_file, temp_file_path, original_size,
                   url, response, unhandled, disk>>

\* Lines 70-76: the return expression is evaluated, os.path.getsize included,
\* before the finally clause runs.
GetSize(r) ==
    /\ pc[r] = "getsize"
    /\ events' = [events EXCEPT ![r] = Append(@, "getsize")]
    /\ IF disk[temp_file_path[r]].exists
       THEN /\ original_size' = [original_size EXCEPT ![r] = disk[temp_file_path[r]].size]
            /\ UNCHANGED exc
       ELSE /\ exc' = [exc EXCEPT ![r] = FileNotFoundError]
            /\ UNCHANGED original_size
    /\ pc' = [pc EXCEPT ![r] = "unlink"]
    /\ UNCHANGED <<request, filename, temp_file, temp_file_path, result,
                   markdown_content, url, response, unhandled, disk>>

\* Lines 78-83: the finally clause; an OSError of os.unlink (the file is not
\* there) is swallowed.
Unlink(r) ==
    /\ pc[r] = "unlink"
    /\ events' = [events EXCEPT ![r] = Append(@, "unlink")]
    /\ disk' = [disk EXCEPT ![temp_file_path[r]] = NoFile]
    /\ pc' = [pc EXCEPT ![r] = "return"]
    /\ UNCHANGED <<request, filename, temp_file, temp_file_path, result,
                   markdown_content, original_size, url, exc, response, unhandled>>

\* Line 70 or lines 85-91: after the finally clause the pending return value
\* is returned, or the pending exception reaches the outer except clause.
ConvertFileReturn(r) ==
    /\ pc[r] = "return"
    /\ Return(r, exc[r], FileSuccess(filename[r], markdown_content[r], original_size[r]), << >>)
    /\ UNCHANGED <<request, filename, temp_file, temp_file_path, result,
                   markdown_content, original_size, url, disk>>

\* ------------------------------------------------------- convert_url steps
\* Lines 104-110: the body is parsed and validated.
ConvertUrlBegin(r) ==
    /\ pc[r] = "idle"
    /\ \E req \in UrlRequests : \E j \in get_json(req.body) :
        LET v == ValidateUrl(j)
        IN  /\ request' = [request EXCEPT ![r] = req]
            /\ IF v.exc # NoExc
               THEN /\ Return(r, v.exc, NoResponse, << >>)
                    /\ UNCHANGED url
               ELSE IF v.rejected
               THEN /\ Return(r, NoExc, ErrorResponse("No URL provided"), << >>)
                    /\ UNCHANGED url
               ELSE /\ url' = [url EXCEPT ![r] = v.url]
                    /\ pc' = [pc EXCEPT ![r] = "url_convert"]
                    /\ UNCHANGED <<response, unhandled, events, exc>>
    /\ UNCHANGED <<filename, temp_file, temp_file_path, result, markdown_content,
                   original_size, disk>>

\* Lines 112-132: markitdown.convert(url), the extraction and the response.
ConvertUrlCall(r) ==
    /\ pc[r] = "url_convert"
    /\ \/ /\ Return(r, ConversionError, NoResponse, <<"library">>)
          /\ UNCHANGED <<result, markdown_content>>
       \/ \E res \in LibResults :
            /\ result' = [result EXCEPT ![r] = res]
            /\ markdown_content' = [markdown_content EXCEPT ![r] = ExtractText(res).text]
            /\ Return(r, ExtractText(res).exc, UrlSuccess(url[r], ExtractText(res).text),
                      <<"library">>)
    /\ UNCHANGED <<request, filename, temp_file, temp_file_path, original_size,
                   url, disk>>

\* The transport layer sends the response; the thread takes the next request
\* with fresh locals.
Finish(r) ==
    /\ pc[r] = "done"
    /\ pc' = [pc EXCEPT ![r] = "idle"]
    /\ request' = [request EXCEPT ![r] = NoRequest]
    /\ filename' = [filename EXCEPT ![r] = EmptyStr]
    /\ temp_file' = [temp_file EXCEPT ![r] = NoPath]
    /\ temp_file_path' = [temp_file_path EXCEPT ![r] = NoPath]
    /\ result' = [result EXCEPT ![r] = NoResult]
    /\ markdown_content' = [markdown_content EXCEPT ![r] = EmptyStr]
    /\ original_size' = [original_size EXCEPT ![r] = 0]
    /\ url' = [url EXCEPT ![r] = EmptyStr]
    /\ exc' = [exc EXCEPT ![r] = NoExc]
    /\ response' = [response EXCEPT ![r] = NoResponse]
    /\ unhandled' = [unhandled EXCEPT ![r] = NoExc]
    /\ events' = [events EXCEPT ![r] = << >>]
    /\ UNCHANGED disk

\* One worker thread serves requests to both endpoints one after another,
\* over a directory that keeps whatever earlier requests left in it.  A
\* handler shares nothing with other handlers but that directory, so what a
\* single invocation does is studied here and their interleaving below.
Next ==
    \/ ConvertFileBegin(1, FileRequests)
    \/ CreateTemp(1)
    \/ Save(1)
    \/ ConvertCall(1)
    \/ GetSize(1)
    \/ Unlink(1)
    \/ ConvertFileReturn(1)
    \/ ConvertUrlBegin(1)
    \/ ConvertUrlCall(1)
    \/ Finish(1)

Spec == Init /\ [][Next]_vars

\* Uploads that pass validation and are staged.
StagedUploads ==
    {req \in FileRequests : req.has_file /\ req.file_filename # EmptyStr
                             /\ ~req.has_form_filename}

\* All worker threads serve POST /convert uploads at the same time, their
\* steps interleaved in any order.
ConcurrentNext ==
    \E r \in Reqs :
        \/ ConvertFileBegin(r, StagedUploads)
        \/ CreateTemp(r)
        \/ Save(r)
        \/ ConvertCall(r)
        \/ GetSize(r)
        \/ Unlink(r)
        \/ ConvertFileReturn(r)
        \/ Finish(r)

ConcurrentSpec == Init /\ [][ConcurrentNext]_vars

\* ================================================================= claims
Returned(r) == pc[r] = "done"

Count(seq, e) == Cardinality({i \in 1 .. Len(seq) : seq[i] = e})

IsPrefix(a, b) == Len(a) <= Len(b) /\ SubSeq(b, 1, Len(a)) = a

\* C1: once a POST /convert call has returned, whatever its outcome, the
\* temporary file that call created is no longer on disk.
C1_NoStagedFileRemains ==
    \A r \in Reqs :
        (Returned(r) /\ temp_file[r] # NoPath) => ~disk[temp_file[r]].exists

\* C2: every returned invocation of convert_file, whatever its outcome, has
\* created exactly one temporary file and deleted exactly one.
C2_ExactlyOneCreatedAndDeleted ==
    \A r \in Reqs :
        (Returned(r) /\ request[r].op = "convert")
            => /\ Count(events[r], "create") = 1
               /\ Count(events[r], "unlink") = 1

\* A /convert-url body that is missing, is not (declared as) valid JSON, or is
\* JSON without a 'url' field.
LacksUrl(body) ==
    \/ body.kind \in {"not_json", "malformed"}
    \/ /\ body.kind = "json"
       /\ ~(body.value.t = "object" /\ "url" \in body.value.keys)

\* C3: every POST /convert-url request without a usable JSON body or without
\* a 'url' field is answered {error: "No URL provided"}, 400, and the library
\* is not invoked; the answer is not a 500.
C3_NoUrlProvided ==
    \A r \in Reqs :
        (Returned(r) /\ request[r].op = "convert_url" /\ LacksUrl(request[r].body))
            => /\ response[r] = ErrorResponse("No URL provided")
               /\ Count(events[r], "library") = 0

\* C4 as stated: a /convert request with a file field is answered
\* {error: "No file selected"}, 400, without a library call, exactly when the
\* file name in effect (the form field when supplied, else the reported name)
\* is empty.
C4_EmptyEffectiveNameRejected ==
    \A r \in Reqs :
        (Returned(r) /\ request[r].op = "convert" /\ request[r].has_file)
            => IF EffectiveFilename(request[r]) = EmptyStr
               THEN /\ response[r] = ErrorResponse("No file selected")
                    /\ Count(events[r], "library") = 0
               ELSE response[r] # ErrorResponse("No file selected")

\* C4 amended: a /convert request with a file field is answered
\* {error: "No file selected"}, 400, without a library call, exactly when the
\* uploaded file's reported name is empty, whatever the 'filename' form field
\* holds.
C4_EmptyReportedNameRejected ==
    \A r \in Reqs :
        (request[r].op = "convert" /\ request[r].has_file)
            => IF request[r].file_filename = EmptyStr
               THEN /\ Returned(r)
                    /\ response[r] = ErrorResponse("No file selected")
                    /\ events[r] = <<"respond">>
               ELSE response[r] # ErrorResponse("No file selected")

\* A request with an empty reported name and a non-empty form field has been
\* rejected.
C4_Witness ==
    \E r \in Reqs :
        /\ Returned(r)
        /\ request[r].op = "convert" /\ request[r].has_file
        /\ request[r].file_filename = EmptyStr
        /\ request[r].has_form_filename /\ request[r].form_filename # EmptyStr
        /\ response[r] = ErrorResponse("No file selected")

\* C5: a /convert request without a 'file' field is answered
\* {error: "No file provided"}, 400, and the handler gets there without
\* creating a temporary file or invoking the library.
C5_NoFileProvided ==
    \A r \in Reqs :
        (request[r].op = "convert" /\ ~request[r].has_file)
            => /\ Returned(r)
               /\ response[r] = ErrorResponse("No file provided")
               /\ events[r] = <<"respond">>
               /\ temp_file[r] = NoPath

C5_Witness ==
    \E r \in Reqs :
        /\ Returned(r)
        /\ request[r].op = "convert" /\ ~request[r].has_file
        /\ response[r] = ErrorResponse("No file provided")

\* The fixed 400 errors of each operation.
FixedErrors(op) ==
    IF op = "convert"
    THEN {ErrorResponse("No file provided"), ErrorResponse("No file selected")}
    ELSE {ErrorResponse("No URL provided")}

\* C6: in both handlers no exception leaves the handler; a handler in which
\* an exception was raised answers 500 with {success: false, error: <its
\* message>}, and every other answer is a 200 success or a fixed 400 error.
C6_ExceptionsBecome500 ==
    \A r \in Reqs :
        /\ unhandled[r] = NoExc
        /\ Returned(r) =>
              IF exc[r] # NoExc
              THEN response[r] = [status |-> 500, success |-> FALSE, error |-> exc[r].msg]
              ELSE \/ response[r].status = 200 /\ response[r].success
                   \/ response[r] \in FixedErrors(request[r].op)

\* The library raised on a staged upload and the handler answered 500.
C6_Witness ==
    \E r \in Reqs :
        /\ Returned(r)
        /\ request[r].op = "convert"
        /\ exc[r] = ConversionError
        /\ Count(events[r], "library") = 1
        /\ response[r].status = 500

\* C7: in every success response of either handler, markdown_size is the
\* character length of the markdown field of that response.
C7_MarkdownSizeIsLength ==
    \A r \in Reqs :
        (Returned(r) /\ response[r].status = 200)
            => response[r].markdown_size = Len(response[r].markdown)

\* A /convert success whose markdown is not empty.
C7_Witness ==
    \E r \in Reqs :
        /\ Returned(r)
        /\ request[r].op = "convert"
        /\ response[r].status = 200
        /\ Len(response[r].markdown) > 0

\* C8: when the library returned no result, the text is the empty string, no
\* exception arises from it, and the handler answers 200 with success true,
\* markdown "" and markdown_size 0.
C8_NoResultIsEmptySuccess ==
    \A r \in Reqs :
        result[r].k = "none"
            => /\ markdown_content[r] = EmptyStr
               /\ exc[r] = NoExc
               /\ Returned(r) =>
                     /\ response[r].status = 200
                     /\ response[r].success
                     /\ response[r].markdown = EmptyStr
                     /\ response[r].markdown_size = 0

\* The library returned None for a staged upload and the handler answered.
C8_Witness ==
    \E r \in Reqs :
        /\ Returned(r)
        /\ request[r].op = "convert"
        /\ result[r].k = "none"
        /\ response[r].status = 200

\* A thread whose temporary file was created and whose cleanup has not run.
Staging(r) == pc[r] \in {"save", "convert", "getsize", "unlink"}

\* C9: under any interleaving of concurrent /convert requests, the staged
\* file of a request (from its creation to the request's own cleanup) is on
\* disk under a path no other such request has, the path the handler gives
\* the library, measures and unlinks is its own, and no handler ever sees its
\* file gone.
C9_StagedFilesAreDisjoint ==
    \A r \in Reqs :
        /\ Staging(r) =>
              /\ disk[temp_file[r]].exists
              /\ pc[r] # "save" => temp_file_path[r] = temp_file[r]
              /\ \A q \in Reqs \ {r} : Staging(q) => temp_file[q] # temp_file[r]
        /\ exc[r] # FileNotFoundError

\* Two requests hold staged files at the same time, one about to clean up
\* while the other is about to call the library.
C9_Witness ==
    \E r \in Reqs : \E q \in Reqs \ {r} :
        /\ pc[r] = "unlink" /\ pc[q] = "convert"
        /\ temp_file_path[r] # temp_file_path[q]

\* The orders of events of a /convert invocation that creates a file.
StagedOrders ==
    { <<"create", "write", "library", "getsize", "unlink", "respond">>,
      <<"create", "write", "library", "unlink", "respond">> }

\* C10: a /convert invocation that has created its temporary file proceeds
\* in the order create and write, library call, size measurement (on the
\* success path), deletion, response: the response never comes before the
\* deletion attempt.
C10_CleanupPrecedesResponse ==
    \A r \in Reqs :
        Count(events[r], "create") > 0
            => \E o \in StagedOrders : IsPrefix(events[r], o)

====
